---- MODULE Spec2Model ----
(***************************************************************************)
(* Model of the Govee serial bridge (govee_serial.py): module-level start  *)
(* up (API key check, device resolution, allow-list filter), the fan-out   *)
(* govee_turn_all and the reconnecting serial loop of main().              *)
(*                                                                         *)
(* Text is modelled as a sequence of one-character strings, so that strip, *)
(* upper, split and join are computed the way the Python code computes     *)
(* them.                                                                   *)
(***************************************************************************)
EXTENDS Integers, Sequences, FiniteSets, TLC

VARIABLES
    pc,                \* position of the process, see PcValues
    exitCode,          \* process exit status once pc = "exited", else NoCode
    raisedOut,         \* TRUE iff an exception propagated out of main()
    apiKeyRaw,         \* os.getenv("GOVEE_API_KEY", "") before .strip()
    devicesRaw,        \* os.getenv("GOVEE_DEVICES", "") before .strip()
    allowedRaw,        \* os.getenv("ALLOWED_MODEL", "H6006") before .strip().upper()
    COOLDOWN_MS,       \* int(os.getenv("COOLDOWN_MS", "800"))
    ALLOWED_MODEL,     \* module global, set at line 115
    GOVEE_DEVICES,     \* module global: sequence of <<device, model>>
    resolved,          \* GOVEE_DEVICES as it stood at line 116 (orig_count's list)
    fetchCalls,        \* number of calls of fetch_devices_from_api made
    openAttempts,      \* number of serial.Serial(...) attempts, saturating
    sleepLeft,         \* time units left of the time.sleep(3) of line 201
    ser,               \* the serial handle of the with-block: "none", "open", "closed"
    raw,               \* main(): raw = ser.readline()
    msg,               \* main(): msg = normalize_line(raw)
    now_ms,            \* main(): now_ms = int(time.time() * 1000)
    last_action_ms,    \* main(): last_action_ms
    lights_on_state,   \* main(): lights_on_state, "None" / "True" / "False"
    logTag,            \* tag of the line main() or govee_turn_all printed last
    value,             \* govee_turn_all(): parameter value, "on" / "off" / ""
    idx,               \* govee_turn_all(): index of the next device of the for loop
    ok_all,            \* govee_turn_all(): ok_all
    sent,              \* requests put by the running govee_turn_all, in order
    results,           \* per-device outcome of the running govee_turn_all
    returned,          \* return value of the last completed govee_turn_all, or "none"
    apiData            \* <<response>> of the listing endpoint once called, else <<>>

vars == <<pc, exitCode, raisedOut, apiKeyRaw, devicesRaw, allowedRaw, COOLDOWN_MS,
          ALLOWED_MODEL, GOVEE_DEVICES, resolved, fetchCalls, openAttempts, sleepLeft,
          ser, raw, msg, now_ms, last_action_ms, lights_on_state, logTag, value, idx,
          ok_all, sent, results, returned, apiData>>

-----------------------------------------------------------------------------
(* Bounds of the model.                                                    *)

\* largest clock reading int(time.time() * 1000) the model draws
MaxTime == 4
\* value at which the count of serial.Serial attempts saturates
MaxAttempts == 2
\* largest number of entries of a GOVEE_DEVICES text given to parse_devices
MaxEntries == 3

-----------------------------------------------------------------------------
(* Text helpers: str.strip, str.upper, str.split, str.join.                *)

Whitespace == {" ", "\t", "\r", "\n"}

RECURSIVE LStrip(_)
LStrip(s) ==
    IF s # <<>> /\ Head(s) \in Whitespace THEN LStrip(Tail(s)) ELSE s

RECURSIVE RStrip(_)
RStrip(s) ==
    IF s # <<>> /\ s[Len(s)] \in Whitespace
    THEN RStrip(SubSeq(s, 1, Len(s) - 1))
    ELSE s

\* str.strip()
Strip(s) == RStrip(LStrip(s))

\* str.upper() on one character (the letters the model's texts use)
UpperChar(c) ==
    CASE c = "h" -> "H"
      [] c = "k" -> "K"
      [] c = "l" -> "L"
      [] c = "o" -> "O"
      [] c = "n" -> "N"
      [] OTHER -> c

\* str.upper()
Upper(s) == [i \in 1..Len(s) |-> UpperChar(s[i])]

\* s.split(sep): the pieces between the separators, empty pieces kept
RECURSIVE SplitFrom(_, _, _)
SplitFrom(s, sep, cur) ==
    IF s = <<>> THEN <<cur>>
    ELSE IF Head(s) = sep THEN <<cur>> \o SplitFrom(Tail(s), sep, <<>>)
    ELSE SplitFrom(Tail(s), sep, Append(cur, Head(s)))

Split(s, sep) == SplitFrom(s, sep, <<>>)

\* sep.join(parts)
RECURSIVE Join(_, _)
Join(parts, sep) ==
    IF parts = <<>> THEN <<>>
    ELSE IF Len(parts) = 1 THEN parts[1]
    ELSE parts[1] \o <<sep>> \o Join(Tail(parts), sep)

-----------------------------------------------------------------------------
(* parse_devices: the GOVEE_DEVICES string to a list of <<device, model>>.  *)

\* mutant of ParseChunks: a malformed entry ends the parsing
RECURSIVE ParseChunksStopAtBad(_)
ParseChunksStopAtBad(chunks) ==
    IF chunks = <<>> THEN <<>>
    ELSE LET chunk == Strip(Head(chunks))
             parts == Split(chunk, ":")
         IN  IF chunk = <<>> THEN ParseChunksStopAtBad(Tail(chunks))
             ELSE IF Len(parts) < 7 THEN <<>>
             ELSE << <<Join(SubSeq(parts, 1, 6), ":"), parts[7]>> >>
                     \o ParseChunksStopAtBad(Tail(chunks))

RECURSIVE ParseChunks(_)
ParseChunks(chunks) ==
    IF chunks = <<>> THEN <<>>
    ELSE LET chunk == Strip(Head(chunks))
             parts == Split(chunk, ":")
             rest  == ParseChunks(Tail(chunks))
         IN  IF chunk = <<>> THEN rest
             ELSE IF Len(parts) < 7 THEN rest
             ELSE << <<Join(SubSeq(parts, 1, 6), ":"), parts[7]>> >> \o rest

parse_devices(s) ==
    IF s = <<>> THEN <<>> ELSE ParseChunks(Split(s, ";"))

-----------------------------------------------------------------------------
(* fetch_devices_from_api.  A JSON value is [t |-> type, v |-> content]:   *)
(* "null" (v empty), "str" (v the text), "list" (v a sequence of values),  *)
(* "dict" (v a record of values).  A response is [err, data]: err is TRUE  *)
(* when SESSION.get / raise_for_status / json raised a RequestException.   *)

JNull == [t |-> "null", v |-> <<>>]
JStr(s) == [t |-> "str", v |-> s]
JList(xs) == [t |-> "list", v |-> xs]
JDict(r) == [t |-> "dict", v |-> r]

\* Python truthiness of a JSON value
Truthy(x) ==
    CASE x.t = "null" -> FALSE
      [] x.t = "str"  -> x.v # <<>>
      [] x.t = "list" -> x.v # <<>>
      [] OTHER        -> DOMAIN x.v # {}

\* d.get(k) of a dict
Get(d, k) == IF k \in DOMAIN d.v THEN d.v[k] ELSE JNull

\* a or b
PyOr(a, b) == IF Truthy(a) THEN a ELSE b

\* the top-level shape normalisation, lines 49-64
DevicesRawOf(data) ==
    IF data.t = "dict" THEN
        IF "data" \in DOMAIN data.v /\ data.v["data"].t = "dict"
               /\ "devices" \in DOMAIN data.v["data"].v
        THEN PyOr(data.v["data"].v["devices"], JList(<<>>))
        ELSE IF "devices" \in DOMAIN data.v /\ data.v["devices"].t = "list"
        THEN data.v["devices"]
        ELSE IF "data" \in DOMAIN data.v /\ data.v["data"].t = "list"
        THEN data.v["data"]
        ELSE JList(<<>>)
    ELSE IF data.t = "list" THEN data
    ELSE JList(<<>>)

\* the elements the for loop of line 67 visits; iterating a str yields strs
\* and iterating a dict yields its keys, none of which is a dict
IterOf(x) ==
    CASE x.t = "list" -> x.v
      [] x.t = "str"  -> [i \in 1..Len(x.v) |-> JStr(<<x.v[i]>>)]
      [] OTHER        -> <<>>

\* mutant of ExtractRecords: the loop ends at the first record it cannot use
RECURSIVE ExtractRecordsStopAtBad(_)
ExtractRecordsStopAtBad(ds) ==
    IF ds = <<>> THEN <<>>
    ELSE LET d == Head(ds)
         IN  IF d.t # "dict" THEN <<>>
             ELSE LET device_id == PyOr(PyOr(Get(d, "device"), Get(d, "deviceId")),
                                        Get(d, "id"))
                      model     == PyOr(PyOr(PyOr(Get(d, "model"), Get(d, "sku")),
                                             Get(d, "productModel")), JStr(<<>>))
                  IN  IF ~Truthy(device_id) \/ ~Truthy(model) THEN <<>>
                      ELSE << <<device_id.v, model.v>> >>
                              \o ExtractRecordsStopAtBad(Tail(ds))

\* the record extraction loop, lines 66-76
RECURSIVE ExtractRecords(_)
ExtractRecords(ds) ==
    IF ds = <<>> THEN <<>>
    ELSE LET d    == Head(ds)
             rest == ExtractRecords(Tail(ds))
         IN  IF d.t # "dict" THEN rest
             ELSE LET device_id == PyOr(PyOr(Get(d, "device"), Get(d, "deviceId")),
                                        Get(d, "id"))
                      model     == PyOr(PyOr(PyOr(Get(d, "model"), Get(d, "sku")),
                                             Get(d, "productModel")), JStr(<<>>))
                  IN  IF ~Truthy(device_id) \/ ~Truthy(model) THEN rest
                      ELSE << <<device_id.v, model.v>> >> \o rest

fetch_devices_from_api(resp) ==
    IF resp.err THEN <<>> ELSE ExtractRecords(IterOf(DevicesRawOf(resp.data)))

-----------------------------------------------------------------------------
(* The allow-list filter of line 118, and normalize_line.                  *)

\* mutant of FilterAllowed: the model is compared without .upper()
FilterAllowedCaseSensitive(devices, allowed) ==
    SelectSeq(devices, LAMBDA dm : dm[2] = allowed)

\* [(d, m) for (d, m) in devices if (m or "").upper() == allowed]
FilterAllowed(devices, allowed) ==
    SelectSeq(devices, LAMBDA dm : Upper(dm[2]) = allowed)

\* a byte that is not valid UTF-8
BadByte == "<ff>"

\* b.decode("utf-8", errors="ignore"): invalid bytes are dropped
Decode(b) == SelectSeq(b, LAMBDA c : c # BadByte)

\* mutant of normalize_line: the decoded text is not stripped
normalize_line_Unstripped(b) == Decode(b)

normalize_line(b) == Strip(Decode(b))

TRIGGER_ON == <<"L", "I", "G", "H", "T", "S", "_", "O", "N">>
TRIGGER_OFF == <<"L", "I", "G", "H", "T", "S", "_", "O", "F", "F">>

-----------------------------------------------------------------------------
(* Inputs: the environment, the vendor's answers, the serial lines.        *)

Mac1 == <<"a", ":", "b", ":", "c", ":", "d", ":", "e", ":", "f">>
Mac2 == <<"1", ":", "2", ":", "3", ":", "4", ":", "5", ":", "6">>
Mac3 == <<"7", ":", "8", ":", "9", ":", "a", ":", "b", ":", "c">>
EntryH6 == Mac1 \o <<":", "H", "6">>
EntryK3 == Mac2 \o <<":", "K", "3">>
Entryh6 == Mac3 \o <<":", "h", "6">>
BadEntry == <<"b", "a", "d">>

\* values of GOVEE_API_KEY: unset, blank, set
ApiKeyRaws == { <<>>, <<" ">>, <<"k">> }

\* values of GOVEE_DEVICES
DevicesRaws ==
    { <<>>,
      BadEntry,
      EntryH6,
      BadEntry \o <<";">> \o EntryK3,
      EntryH6 \o <<";">> \o EntryK3 \o <<";", " ">> \o Entryh6 \o <<" ">> }

\* values of ALLOWED_MODEL
AllowedRaws == { <<>>, <<" ", "h", "6", " ">> }

\* values of COOLDOWN_MS: cooldown disabled, cooldown of two clock units
CooldownValues == {0, 2}

DevRecord(id, m) == JDict([device |-> JStr(id), model |-> JStr(m)])
SkuRecord(id, m) == JDict([deviceId |-> JStr(id), sku |-> JStr(m)])

\* answers of the device-listing endpoint
ApiResponses ==
    << [err |-> TRUE, data |-> JNull],
       [err |-> FALSE,
        data |-> JDict([data |-> JDict([devices |->
                   JList(<<DevRecord(<<"d", "1">>, <<"h", "6">>),
                           SkuRecord(<<"d", "2">>, <<"K", "3">>)>>)])])],
       [err |-> FALSE, data |-> JDict([devices |->
                   JList(<<DevRecord(<<"d", "1">>, <<"K", "3">>)>>)])],
       [err |-> FALSE, data |-> JDict([data |->
                   JList(<<JStr(<<"x">>), DevRecord(<<"d", "3">>, <<"H", "6">>)>>)])],
       [err |-> FALSE, data |-> JList(<<JDict([device |-> JStr(<<"d", "4">>)])>>)],
       [err |-> FALSE, data |-> JDict([message |-> JStr(<<"o", "k">>)])],
       [err |-> FALSE, data |-> JNull] >>

\* what ser.readline() returns: b"" on timeout, else one line of bytes
RawLines ==
    { <<>>,
      <<" ", "\r", "\n">>,
      TRIGGER_ON \o <<"\r", "\n">>,
      <<BadByte>> \o TRIGGER_OFF \o <<"\n">>,
      <<"4", "2", "c", "m", "\n">> }

\* one control request: HTTP 200, another HTTP status, a RequestException
Outcomes == {"200", "500", "exception"}

\* readings of int(time.time() * 1000)
Times == 0..MaxTime

\* exit status of a Python process ended by an uncaught KeyboardInterrupt
\* (128 + SIGINT; the interpreter never reports 0 for it)
UncaughtInterruptCodes == {130}

-----------------------------------------------------------------------------
(* Start-up: the module-level code of lines 16-127.                        *)

\* time.sleep(3) of the SerialException handler
BACKOFF_S == 3

Init ==
    /\ pc = "keycheck"
    /\ exitCode = -1                 \* no exit status yet
    /\ raisedOut = FALSE
    /\ apiKeyRaw \in ApiKeyRaws
    /\ devicesRaw \in DevicesRaws
    /\ allowedRaw \in AllowedRaws
    /\ COOLDOWN_MS \in CooldownValues
    /\ ALLOWED_MODEL = <<>>
    /\ GOVEE_DEVICES = <<>>
    /\ resolved = <<>>
    /\ fetchCalls = 0
    /\ openAttempts = 0
    /\ sleepLeft = 0
    /\ ser = "none"
    /\ raw = <<>>
    /\ msg = <<>>
    /\ now_ms = 0
    /\ last_action_ms = 0
    /\ lights_on_state = "None"
    /\ logTag = ""
    /\ value = ""
    /\ idx = 0
    /\ ok_all = TRUE
    /\ sent = <<>>
    /\ results = <<>>
    /\ returned = "none"
    /\ apiData = <<>>

\* mutant of GOVEE_API_KEY: the value is not stripped
GOVEE_API_KEY_Unstripped == apiKeyRaw

\* GOVEE_API_KEY = os.getenv("GOVEE_API_KEY", "").strip()
GOVEE_API_KEY == Strip(apiKeyRaw)

\* GOVEE_DEVICES_RAW = os.getenv("GOVEE_DEVICES", "").strip()
GOVEE_DEVICES_RAW == Strip(devicesRaw)

\* sys.exit(code) at module level
SysExit(code) ==
    /\ pc' = "exited"
    /\ exitCode' = code

\* lines 22-24: if not GOVEE_API_KEY: sys.exit(1)
CheckApiKey ==
    /\ pc = "keycheck"
    /\ IF GOVEE_API_KEY = <<>> THEN SysExit(1)
       ELSE pc' = "parse" /\ UNCHANGED exitCode
    /\ UNCHANGED <<apiData, raisedOut, apiKeyRaw, devicesRaw, allowedRaw, COOLDOWN_MS,
                   ALLOWED_MODEL, GOVEE_DEVICES, resolved, fetchCalls, openAttempts,
                   sleepLeft, ser, raw, msg, now_ms, last_action_ms, lights_on_state,
                   logTag, value, idx, ok_all, sent, results, returned>>

\* mutant of ParseStatic: the listing endpoint is asked whatever was parsed
ParseStaticThenAlwaysDiscover ==
    /\ pc = "parse"
    /\ GOVEE_DEVICES' = parse_devices(GOVEE_DEVICES_RAW)
    /\ pc' = "discover"
    /\ UNCHANGED <<apiData, exitCode, raisedOut, apiKeyRaw, devicesRaw, allowedRaw, COOLDOWN_MS,
                   ALLOWED_MODEL, resolved, fetchCalls, openAttempts, sleepLeft, ser,
                   raw, msg, now_ms, last_action_ms, lights_on_state, logTag, value,
                   idx, ok_all, sent, results, returned>>

\* lines 102-103: GOVEE_DEVICES = parse_devices(GOVEE_DEVICES_RAW)
ParseStatic ==
    /\ pc = "parse"
    /\ GOVEE_DEVICES' = parse_devices(GOVEE_DEVICES_RAW)
    /\ pc' = IF GOVEE_DEVICES' = <<>> THEN "discover" ELSE "filter"
    /\ UNCHANGED <<apiData, exitCode, raisedOut, apiKeyRaw, devicesRaw, allowedRaw, COOLDOWN_MS,
                   ALLOWED_MODEL, resolved, fetchCalls, openAttempts, sleepLeft, ser,
                   raw, msg, now_ms, last_action_ms, lights_on_state, logTag, value,
                   idx, ok_all, sent, results, returned>>

\* lines 105-111 when the endpoint answers resp
DiscoverWith(resp) ==
    LET fetched == fetch_devices_from_api(resp)
    IN  /\ apiData' = <<resp>>
        /\ IF fetched # <<>>
           THEN /\ GOVEE_DEVICES' = fetched
                /\ pc' = "filter"
                /\ UNCHANGED exitCode
           ELSE /\ SysExit(1)
                /\ UNCHANGED GOVEE_DEVICES

\* lines 104-111: the fallback to the device-listing endpoint
Discover ==
    /\ pc = "discover"
    /\ \E i \in 1..Len(ApiResponses) : DiscoverWith(ApiResponses[i])
    /\ fetchCalls' = fetchCalls + 1
    /\ UNCHANGED <<raisedOut, apiKeyRaw, devicesRaw, allowedRaw, COOLDOWN_MS,
                   ALLOWED_MODEL, resolved, openAttempts, sleepLeft, ser, raw, msg,
                   now_ms, last_action_ms, lights_on_state, logTag, value, idx, ok_all,
                   sent, results, returned>>

\* mutant of ApplyAllowList: an empty filtered registry is fatal
ApplyAllowListEmptyFatal ==
    /\ pc = "filter"
    /\ ALLOWED_MODEL' = Upper(Strip(allowedRaw))
    /\ resolved' = GOVEE_DEVICES
    /\ GOVEE_DEVICES' = IF ALLOWED_MODEL' # <<>>
                        THEN FilterAllowed(GOVEE_DEVICES, ALLOWED_MODEL')
                        ELSE GOVEE_DEVICES
    /\ IF GOVEE_DEVICES' = <<>> THEN SysExit(1)
       ELSE pc' = "main" /\ UNCHANGED exitCode
    /\ UNCHANGED <<apiData, raisedOut, apiKeyRaw, devicesRaw, allowedRaw, COOLDOWN_MS,
                   fetchCalls, openAttempts, sleepLeft, ser, raw, msg, now_ms,
                   last_action_ms, lights_on_state, logTag, value, idx, ok_all, sent,
                   results, returned>>

\* lines 115-127: the allow-list filter; an empty result only warns
ApplyAllowList ==
    /\ pc = "filter"
    /\ ALLOWED_MODEL' = Upper(Strip(allowedRaw))
    /\ resolved' = GOVEE_DEVICES
    /\ GOVEE_DEVICES' = IF ALLOWED_MODEL' # <<>>
                        THEN FilterAllowed(GOVEE_DEVICES, ALLOWED_MODEL')
                        ELSE GOVEE_DEVICES
    /\ pc' = "main"
    /\ UNCHANGED <<apiData, exitCode, raisedOut, apiKeyRaw, devicesRaw, allowedRaw, COOLDOWN_MS,
                   fetchCalls, openAttempts, sleepLeft, ser, raw, msg, now_ms,
                   last_action_ms, lights_on_state, logTag, value, idx, ok_all, sent,
                   results, returned>>

-----------------------------------------------------------------------------
(* main(): lines 159-204.                                                  *)

\* lines 160-166: the banner and the two locals
MainStart ==
    /\ pc = "main"
    /\ lights_on_state' = "None"
    /\ last_action_ms' = 0
    /\ pc' = "open"
    /\ UNCHANGED <<apiData, exitCode, raisedOut, apiKeyRaw, devicesRaw, allowedRaw, COOLDOWN_MS,
                   ALLOWED_MODEL, GOVEE_DEVICES, resolved, fetchCalls, openAttempts,
                   sleepLeft, ser, raw, msg, now_ms, logTag, value, idx, ok_all, sent,
                   results, returned>>

\* saturating count of serial.Serial attempts
CountAttempt(n) == IF n < MaxAttempts THEN n + 1 ELSE n

\* mutant of OnSerialException: the handler gives up instead of backing off
OnSerialExceptionFatal ==
    /\ ser' = IF ser = "open" THEN "closed" ELSE ser
    /\ logTag' = "WARN"
    /\ sleepLeft' = 0
    /\ pc' = "exited"

\* mutant of OnSerialException: the handle is left open across the back-off
OnSerialExceptionNoClose ==
    /\ UNCHANGED ser
    /\ logTag' = "WARN"
    /\ sleepLeft' = BACKOFF_S
    /\ pc' = "backoff"

\* lines 199-201: except SerialException: the with-block has closed the handle
\* it held, then time.sleep(3) starts
OnSerialException ==
    /\ ser' = IF ser = "open" THEN "closed" ELSE ser
    /\ logTag' = "WARN"
    /\ sleepLeft' = BACKOFF_S
    /\ pc' = "backoff"

\* mutant of OpenPort: a new handle starts with a cleared action time
OpenPortResetsCooldown ==
    /\ pc = "open"
    /\ openAttempts' = CountAttempt(openAttempts)
    /\ \/ /\ ser' = "open" /\ logTag' = "INFO" /\ pc' = "read"
          /\ last_action_ms' = 0
          /\ UNCHANGED sleepLeft
       \/ OnSerialException /\ UNCHANGED last_action_ms
    /\ UNCHANGED <<apiData, exitCode, raisedOut, apiKeyRaw, devicesRaw, allowedRaw, COOLDOWN_MS,
                   ALLOWED_MODEL, GOVEE_DEVICES, resolved, fetchCalls, raw, msg, now_ms,
                   lights_on_state, value, idx, ok_all, sent, results,
                   returned>>

\* line 170: serial.Serial(SERIAL_PORT, BAUDRATE, timeout=1) opens the port or
\* raises SerialException
OpenPort ==
    /\ pc = "open"
    /\ openAttempts' = CountAttempt(openAttempts)
    /\ \/ ser' = "open" /\ logTag' = "INFO" /\ pc' = "read" /\ UNCHANGED sleepLeft
       \/ OnSerialException
    /\ UNCHANGED <<apiData, exitCode, raisedOut, apiKeyRaw, devicesRaw, allowedRaw, COOLDOWN_MS,
                   ALLOWED_MODEL, GOVEE_DEVICES, resolved, fetchCalls, raw, msg, now_ms,
                   last_action_ms, lights_on_state, value, idx, ok_all, sent, results,
                   returned>>

\* line 173: ser.readline() raises SerialException
ReadFail ==
    /\ pc = "read"
    /\ OnSerialException
    /\ UNCHANGED <<apiData, exitCode, raisedOut, apiKeyRaw, devicesRaw, allowedRaw, COOLDOWN_MS,
                   ALLOWED_MODEL, GOVEE_DEVICES, resolved, fetchCalls, openAttempts, raw,
                   msg, now_ms, last_action_ms, lights_on_state, value, idx, ok_all,
                   sent, results, returned>>

\* line 201: one time unit of time.sleep(3) passes
BackoffTick ==
    /\ pc = "backoff"
    /\ sleepLeft > 0
    /\ sleepLeft' = sleepLeft - 1
    /\ UNCHANGED <<apiData, pc, exitCode, raisedOut, apiKeyRaw, devicesRaw, allowedRaw,
                   COOLDOWN_MS, ALLOWED_MODEL, GOVEE_DEVICES, resolved, fetchCalls,
                   openAttempts, ser, raw, msg, now_ms, last_action_ms, lights_on_state,
                   logTag, value, idx, ok_all, sent, results, returned>>

\* line 201 returns: back to the top of while True (line 168)
BackoffDone ==
    /\ pc = "backoff"
    /\ sleepLeft = 0
    /\ pc' = "open"
    /\ UNCHANGED <<apiData, exitCode, raisedOut, apiKeyRaw, devicesRaw, allowedRaw, COOLDOWN_MS,
                   ALLOWED_MODEL, GOVEE_DEVICES, resolved, fetchCalls, openAttempts,
                   sleepLeft, ser, raw, msg, now_ms, last_action_ms, lights_on_state,
                   logTag, value, idx, ok_all, sent, results, returned>>

-----------------------------------------------------------------------------
(* parse_devices on its own: the process stands at line 102 with a         *)
(* GOVEE_DEVICES text made of up to MaxEntries entries of EntryPool.       *)

\* the values the variables have when the module-level code starts, apart
\* from pc and the environment
StartValues ==
    /\ exitCode = -1
    /\ raisedOut = FALSE
    /\ ALLOWED_MODEL = <<>>
    /\ GOVEE_DEVICES = <<>>
    /\ resolved = <<>>
    /\ fetchCalls = 0
    /\ openAttempts = 0
    /\ sleepLeft = 0
    /\ ser = "none"
    /\ raw = <<>>
    /\ msg = <<>>
    /\ now_ms = 0
    /\ last_action_ms = 0
    /\ lights_on_state = "None"
    /\ logTag = ""
    /\ value = ""
    /\ idx = 0
    /\ ok_all = TRUE
    /\ sent = <<>>
    /\ results = <<>>
    /\ returned = "none"
    /\ apiData = <<>>

\* entries of a GOVEE_DEVICES text: the text of the entry, and the devices
\* (none or one) an entry with that many colon-separated tokens stands for
EntryPool ==
    << [text |-> BadEntry,                          devs |-> <<>>],
       [text |-> <<>>,                              devs |-> <<>>],
       [text |-> EntryH6,                           devs |-> << <<Mac1, <<"H", "6">>>> >>],
       [text |-> <<" ">> \o EntryK3 \o <<" ">>,     devs |-> << <<Mac2, <<"K", "3">>>> >>],
       [text |-> Mac3,                              devs |-> <<>>],
       [text |-> Entryh6 \o <<":", "x">>,           devs |-> << <<Mac3, <<"h", "6">>>> >>] >>

\* the sequences of up to MaxEntries entries, as indices into EntryPool
EntrySeqs == UNION { [1..n -> 1..Len(EntryPool)] : n \in 0..MaxEntries }

\* the entries es written as one text, separated by semicolons
RECURSIVE TextOf(_)
TextOf(es) ==
    IF es = <<>> THEN <<>>
    ELSE IF Len(es) = 1 THEN EntryPool[es[1]].text
    ELSE EntryPool[es[1]].text \o <<";">> \o TextOf(Tail(es))

\* the devices the entries es stand for, in the order of the entries
RECURSIVE DevicesOf(_)
DevicesOf(es) ==
    IF es = <<>> THEN <<>> ELSE EntryPool[es[1]].devs \o DevicesOf(Tail(es))

ParseTexts == { TextOf(es) : es \in EntrySeqs }

InitParse ==
    /\ pc = "parse"
    /\ apiKeyRaw = <<"k">>
    /\ devicesRaw \in ParseTexts
    /\ allowedRaw = <<>>
    /\ COOLDOWN_MS = 0
    /\ StartValues

SpecParse == InitParse /\ [][ParseStatic]_vars

-----------------------------------------------------------------------------
(* fetch_devices_from_api on its own: the process stands at line 104 with  *)
(* no static device, and the endpoint answers with up to MaxRecords        *)
(* elements in one of the four shapes of lines 51-60.                      *)

MaxRecords == 2

\* a key the record does not have
Absent == [t |-> "absent", v |-> <<>>]

\* the keys lines 71-72 look at, in the order they are tried
IdKeys == <<"device", "deviceId", "id">>
ModelKeys == <<"model", "sku", "productModel">>

\* what a record holds under the three identifier keys
IdSides ==
    << <<Absent, Absent, Absent>>,
       <<JStr(<<"a">>), Absent, Absent>>,
       <<JStr(<<>>), JStr(<<"b">>), Absent>>,
       <<JNull, Absent, JStr(<<"c">>)>>,
       <<JStr(<<"a">>), JStr(<<"b">>), JStr(<<"c">>)>>,
       <<JStr(<<>>), JNull, JStr(<<>>)>> >>

\* what a record holds under the three model keys
ModelSides ==
    << <<Absent, Absent, Absent>>,
       <<JStr(<<"m">>), Absent, Absent>>,
       <<JStr(<<>>), JStr(<<"s">>), Absent>>,
       <<Absent, JNull, JStr(<<"p">>)>>,
       <<JStr(<<"m">>), JStr(<<"s">>), JStr(<<"p">>)>>,
       <<JNull, JStr(<<>>), Absent>> >>

\* the JSON object with the keys the two sides give a value to
RecordOf(idSide, modelSide) ==
    LET keys == IdKeys \o ModelKeys
        vals == idSide \o modelSide
        has  == { i \in 1..Len(keys) : vals[i] # Absent }
    IN  JDict([k \in { keys[i] : i \in has } |->
                 vals[CHOOSE i \in has : keys[i] = k]])

\* the elements of an answer: every pairing of the sides, then a string and
\* a null, which are no objects
NumRecords == Len(IdSides) * Len(ModelSides)
NumElements == NumRecords + 2
ElementAt(n) ==
    IF n <= NumRecords
    THEN RecordOf(IdSides[((n - 1) \div Len(ModelSides)) + 1],
                  ModelSides[((n - 1) % Len(ModelSides)) + 1])
    ELSE IF n = NumRecords + 1 THEN JStr(<<"x">>)
    ELSE JNull

\* the lists of up to MaxRecords elements, as indices for ElementAt
ElementSeqs == UNION { [1..n -> 1..NumElements] : n \in 0..MaxRecords }

\* the answer that carries the elements es in shape number shape
ResponseOf(shape, es) ==
    LET ds == JList([i \in 1..Len(es) |-> ElementAt(es[i])])
    IN  [err  |-> FALSE,
         data |-> CASE shape = 1 -> JDict([data |-> JDict([devices |-> ds])])
                    [] shape = 2 -> JDict([devices |-> ds])
                    [] shape = 3 -> JDict([data |-> ds])
                    [] OTHER     -> ds]

\* lines 104-111 for an answer built from ElementSeqs
DiscoverWide ==
    /\ pc = "discover"
    /\ \E shape \in 1..4, es \in ElementSeqs : DiscoverWith(ResponseOf(shape, es))
    /\ fetchCalls' = fetchCalls + 1
    /\ UNCHANGED <<raisedOut, apiKeyRaw, devicesRaw, allowedRaw, COOLDOWN_MS,
                   ALLOWED_MODEL, resolved, openAttempts, sleepLeft, ser, raw, msg,
                   now_ms, last_action_ms, lights_on_state, logTag, value, idx, ok_all,
                   sent, results, returned>>

InitFetch ==
    /\ pc = "discover"
    /\ apiKeyRaw = <<"k">>
    /\ devicesRaw = <<>>
    /\ allowedRaw = <<>>
    /\ COOLDOWN_MS = 0
    /\ StartValues

SpecFetch == InitFetch /\ [][DiscoverWide]_vars

-----------------------------------------------------------------------------
(* The body of the read loop, lines 173-197, and govee_turn_all.           *)

\* mutant of InCooldown: the test that the cooldown is enabled is missing
InCooldownUnguarded(now, last) == (now - last) < COOLDOWN_MS

\* mutant of InCooldown: the distance to the last action is taken without
\* its sign
InCooldownAbs(now, last) ==
    /\ COOLDOWN_MS > 0
    /\ (IF now >= last THEN now - last ELSE last - now) < COOLDOWN_MS

\* line 182: COOLDOWN_MS > 0 and (now_ms - last_action_ms) < COOLDOWN_MS
InCooldown(now, last) == COOLDOWN_MS > 0 /\ (now - last) < COOLDOWN_MS

\* lines 129-132: govee_turn_all(v) is entered
CallTurnAll(v) ==
    /\ pc' = "dispatch"
    /\ value' = v
    /\ idx' = 1
    /\ ok_all' = TRUE
    /\ sent' = <<>>
    /\ results' = <<>>

\* lines 187-197: the branch on msg once the cooldown gate is passed
Route(m) ==
    IF m = TRIGGER_ON THEN CallTurnAll("on") /\ UNCHANGED logTag
    ELSE IF m = TRIGGER_OFF THEN CallTurnAll("off") /\ UNCHANGED logTag
    ELSE /\ logTag' = "UART"
         /\ UNCHANGED <<pc, value, idx, ok_all, sent, results>>

\* mutant of HandleLine: a line whose text is empty is handled like any other
HandleLineNoBlankCheck(b, t) ==
    /\ raw' = b
    /\ IF b = <<>>
       THEN UNCHANGED <<pc, msg, now_ms, logTag, value, idx, ok_all, sent, results>>
       ELSE /\ msg' = normalize_line(b)
            /\ now_ms' = t
            /\ IF InCooldown(t, last_action_ms)
               THEN /\ logTag' = "SKIP"
                    /\ UNCHANGED <<pc, value, idx, ok_all, sent, results>>
               ELSE Route(msg')

\* lines 173-197 for ser.readline() = b and time.time() reading t
HandleLine(b, t) ==
    /\ raw' = b
    /\ IF b = <<>>
       THEN UNCHANGED <<pc, msg, now_ms, logTag, value, idx, ok_all, sent, results>>
       ELSE /\ msg' = normalize_line(b)
            /\ IF msg' = <<>>
               THEN UNCHANGED <<pc, now_ms, logTag, value, idx, ok_all, sent, results>>
               ELSE /\ now_ms' = t
                    /\ IF InCooldown(t, last_action_ms)
                       THEN /\ logTag' = "SKIP"
                            /\ UNCHANGED <<pc, value, idx, ok_all, sent, results>>
                       ELSE Route(msg')

\* one iteration of the inner while True, up to the call of govee_turn_all
ReadLine ==
    /\ pc = "read"
    /\ \E b \in RawLines, t \in Times : HandleLine(b, t)
    /\ UNCHANGED <<apiData, exitCode, raisedOut, apiKeyRaw, devicesRaw, allowedRaw, COOLDOWN_MS,
                   ALLOWED_MODEL, GOVEE_DEVICES, resolved, fetchCalls, openAttempts,
                   sleepLeft, ser, last_action_ms, lights_on_state, returned>>

\* mutant of NextOkAll: ok_all is overwritten by the last device's outcome
NextOkAllLastOnly(ok, outcome) == outcome = "200"

\* lines of bytes for the decoding of triggers, each with the text it holds
\* once invalid bytes and surrounding white space are taken away
DecodeCases ==
    << [bytes |-> <<>>,                                    text |-> <<>>],
       [bytes |-> <<" ", " ">>,                            text |-> <<>>],
       [bytes |-> TRIGGER_ON \o <<"\r", "\n">>,            text |-> TRIGGER_ON],
       [bytes |-> <<BadByte>> \o TRIGGER_OFF \o <<"\n">>,  text |-> TRIGGER_OFF],
       [bytes |-> <<" ">> \o TRIGGER_OFF \o <<" ", "\r">>, text |-> TRIGGER_OFF],
       [bytes |-> <<"4", "2", "c", "m", "\n">>,            text |-> <<"4", "2", "c", "m">>],
       [bytes |-> <<"l", "i", "g", "h", "t", "s", "_", "o", "n", "\n">>,
        text  |-> <<"l", "i", "g", "h", "t", "s", "_", "o", "n">>],
       [bytes |-> TRIGGER_ON \o <<"!", "\n">>,             text |-> TRIGGER_ON \o <<"!">>] >>

DecodeLines == { DecodeCases[i].bytes : i \in 1..Len(DecodeCases) }

\* one iteration of the inner while True on a line of DecodeLines
DecodeRead ==
    /\ pc = "read"
    /\ \E b \in DecodeLines, t \in Times : HandleLine(b, t)
    /\ UNCHANGED <<apiData, exitCode, raisedOut, apiKeyRaw, devicesRaw, allowedRaw,
                   COOLDOWN_MS, ALLOWED_MODEL, GOVEE_DEVICES, resolved, fetchCalls,
                   openAttempts, sleepLeft, ser, last_action_ms, lights_on_state,
                   returned>>

\* the process listening on its first handle, with one configured device
InitDecode ==
    /\ pc = "read"
    /\ exitCode = -1
    /\ raisedOut = FALSE
    /\ apiKeyRaw = <<"k">>
    /\ devicesRaw = EntryH6
    /\ allowedRaw = <<>>
    /\ COOLDOWN_MS \in CooldownValues
    /\ ALLOWED_MODEL = <<>>
    /\ GOVEE_DEVICES = << <<Mac1, <<"H", "6">>>> >>
    /\ resolved = GOVEE_DEVICES
    /\ fetchCalls = 0
    /\ openAttempts = 1
    /\ sleepLeft = 0
    /\ ser = "open"
    /\ raw = <<>>
    /\ msg = <<>>
    /\ now_ms = 0
    /\ last_action_ms = 0
    /\ lights_on_state = "None"
    /\ logTag = "INFO"
    /\ value = ""
    /\ idx = 0
    /\ ok_all = TRUE
    /\ sent = <<>>
    /\ results = <<>>
    /\ returned = "none"
    /\ apiData = <<>>

\* lines 141-148: what one SESSION.put outcome does to ok_all
NextOkAll(ok, outcome) == IF outcome = "200" THEN ok ELSE FALSE

\* mutant of SendOne: a device whose request failed is taken out of the
\* registry
SendOneDropsFailed ==
    /\ pc = "dispatch"
    /\ idx <= Len(GOVEE_DEVICES)
    /\ \E outcome \in Outcomes :
         /\ sent' = Append(sent, [device |-> GOVEE_DEVICES[idx][1],
                                  model  |-> GOVEE_DEVICES[idx][2],
                                  value  |-> value])
         /\ results' = Append(results, outcome)
         /\ ok_all' = NextOkAll(ok_all, outcome)
         /\ logTag' = IF outcome = "200" THEN "OK" ELSE "ERR"
         /\ IF outcome = "200"
            THEN idx' = idx + 1 /\ UNCHANGED GOVEE_DEVICES
            ELSE /\ idx' = Len(GOVEE_DEVICES) + 1
                 /\ GOVEE_DEVICES' = SubSeq(GOVEE_DEVICES, 1, idx - 1)
    /\ UNCHANGED <<apiData, pc, exitCode, raisedOut, apiKeyRaw, devicesRaw, allowedRaw,
                   COOLDOWN_MS, ALLOWED_MODEL, resolved, fetchCalls,
                   openAttempts, sleepLeft, ser, raw, msg, now_ms, last_action_ms,
                   lights_on_state, value, returned>>

\* lines 133-148: one turn of the for loop, the request to device idx
SendOne ==
    /\ pc = "dispatch"
    /\ idx <= Len(GOVEE_DEVICES)
    /\ \E outcome \in Outcomes :
         /\ sent' = Append(sent, [device |-> GOVEE_DEVICES[idx][1],
                                  model  |-> GOVEE_DEVICES[idx][2],
                                  value  |-> value])
         /\ results' = Append(results, outcome)
         /\ ok_all' = NextOkAll(ok_all, outcome)
         /\ logTag' = IF outcome = "200" THEN "OK" ELSE "ERR"
    /\ idx' = idx + 1
    /\ UNCHANGED <<apiData, pc, exitCode, raisedOut, apiKeyRaw, devicesRaw, allowedRaw,
                   COOLDOWN_MS, ALLOWED_MODEL, GOVEE_DEVICES, resolved, fetchCalls,
                   openAttempts, sleepLeft, ser, raw, msg, now_ms, last_action_ms,
                   lights_on_state, value, returned>>

\* mutant of TurnAllReturn: the action time is recorded only when every
\* device succeeded
TurnAllReturnOnSuccessOnly ==
    /\ pc = "dispatch"
    /\ idx > Len(GOVEE_DEVICES)
    /\ returned' = IF ok_all THEN "True" ELSE "False"
    /\ lights_on_state' = IF value = "on" THEN "True" ELSE "False"
    /\ last_action_ms' = IF ok_all THEN now_ms ELSE last_action_ms
    /\ pc' = "read"
    /\ value' = "" /\ idx' = 0 /\ ok_all' = TRUE
    /\ sent' = <<>> /\ results' = <<>>
    /\ UNCHANGED <<apiData, exitCode, raisedOut, apiKeyRaw, devicesRaw, allowedRaw, COOLDOWN_MS,
                   ALLOWED_MODEL, GOVEE_DEVICES, resolved, fetchCalls, openAttempts,
                   sleepLeft, ser, raw, msg, now_ms, logTag>>

\* line 149 and lines 189-190 / 193-194: govee_turn_all returns ok_all, then
\* main() records the state and the time of the action
TurnAllReturn ==
    /\ pc = "dispatch"
    /\ idx > Len(GOVEE_DEVICES)
    /\ returned' = IF ok_all THEN "True" ELSE "False"
    /\ lights_on_state' = IF value = "on" THEN "True" ELSE "False"
    /\ last_action_ms' = now_ms
    /\ pc' = "read"
    /\ value' = "" /\ idx' = 0 /\ ok_all' = TRUE      \* the frame of the call is gone
    /\ sent' = <<>> /\ results' = <<>>
    /\ UNCHANGED <<apiData, exitCode, raisedOut, apiKeyRaw, devicesRaw, allowedRaw, COOLDOWN_MS,
                   ALLOWED_MODEL, GOVEE_DEVICES, resolved, fetchCalls, openAttempts,
                   sleepLeft, ser, raw, msg, now_ms, logTag>>

\* mutant of Interrupt: an interrupt during the fan-out lets govee_turn_all
\* finish the remaining devices and main() record the action before leaving
InterruptAfterFanOut ==
    /\ pc \in {"open", "read", "dispatch", "backoff"}
    /\ IF pc = "backoff"
       THEN /\ raisedOut' = TRUE
            /\ exitCode' \in UncaughtInterruptCodes
            /\ UNCHANGED <<ser, logTag>>
       ELSE /\ ser' = IF ser = "open" THEN "closed" ELSE ser
            /\ logTag' = "INFO"
            /\ exitCode' = 0
            /\ UNCHANGED raisedOut
    /\ IF pc = "dispatch"
       THEN /\ sent' = sent \o [k \in 1..(Len(GOVEE_DEVICES) + 1 - idx) |->
                                  [device |-> GOVEE_DEVICES[idx + k - 1][1],
                                   model  |-> GOVEE_DEVICES[idx + k - 1][2],
                                   value  |-> value]]
            /\ last_action_ms' = now_ms
       ELSE UNCHANGED <<sent, last_action_ms>>
    /\ pc' = "exited"
    /\ UNCHANGED <<apiData, apiKeyRaw, devicesRaw, allowedRaw, COOLDOWN_MS, ALLOWED_MODEL,
                   GOVEE_DEVICES, resolved, fetchCalls, openAttempts, sleepLeft, raw,
                   msg, now_ms, lights_on_state, value, idx, ok_all, results,
                   returned>>

\* a KeyboardInterrupt: inside the try block (lines 169-197) it is caught at
\* line 202 after the with-block closed the handle, and main() returns; inside
\* the SerialException handler (time.sleep, line 201) no except clause of the
\* same try statement applies and it propagates out of main()
Interrupt ==
    /\ pc \in {"open", "read", "dispatch", "backoff"}
    /\ IF pc = "backoff"
       THEN /\ raisedOut' = TRUE
            /\ exitCode' \in UncaughtInterruptCodes
            /\ UNCHANGED <<ser, logTag>>
       ELSE /\ ser' = IF ser = "open" THEN "closed" ELSE ser
            /\ logTag' = "INFO"
            /\ exitCode' = 0
            /\ UNCHANGED raisedOut
    /\ pc' = "exited"
    /\ UNCHANGED <<apiData, apiKeyRaw, devicesRaw, allowedRaw, COOLDOWN_MS, ALLOWED_MODEL,
                   GOVEE_DEVICES, resolved, fetchCalls, openAttempts, sleepLeft, raw,
                   msg, now_ms, last_action_ms, lights_on_state, value, idx, ok_all,
                   sent, results, returned>>

Next ==
    \/ CheckApiKey
    \/ ParseStatic
    \/ Discover
    \/ ApplyAllowList
    \/ MainStart
    \/ OpenPort
    \/ ReadLine
    \/ ReadFail
    \/ SendOne
    \/ TurnAllReturn
    \/ BackoffTick
    \/ BackoffDone
    \/ Interrupt

Spec == Init /\ [][Next]_vars

\* the read loop and the fan-out alone, on the lines of DecodeLines
NextDecode ==
    \/ DecodeRead
    \/ SendOne
    \/ TurnAllReturn

SpecDecode == InitDecode /\ [][NextDecode]_vars

TypeOK ==
    /\ pc \in {"keycheck", "parse", "discover", "filter", "main", "open", "read",
               "dispatch", "backoff", "exited"}
    /\ exitCode \in {-1, 0, 1} \cup UncaughtInterruptCodes
    /\ raisedOut \in BOOLEAN
    /\ COOLDOWN_MS \in CooldownValues
    /\ fetchCalls \in 0..1
    /\ openAttempts \in 0..MaxAttempts
    /\ sleepLeft \in 0..BACKOFF_S
    /\ ser \in {"none", "open", "closed"}
    /\ raw \in RawLines
    /\ now_ms \in Times
    /\ last_action_ms \in Times
    /\ lights_on_state \in {"None", "True", "False"}
    /\ logTag \in {"", "INFO", "WARN", "SKIP", "UART", "OK", "ERR"}
    /\ value \in {"", "on", "off"}
    /\ idx \in 0..(Len(GOVEE_DEVICES) + 1)
    /\ ok_all \in BOOLEAN
    /\ Len(sent) = Len(results)
    /\ returned \in {"none", "True", "False"}

-----------------------------------------------------------------------------
(* Properties.                                                             *)

Triggers == {TRIGGER_ON, TRIGGER_OFF}

\* the value govee_turn_all is to be called with for a trigger text
CommandOf(m) == IF m = TRIGGER_ON THEN "on" ELSE "off"

\* a step of the read loop that read a line decoding to LIGHTS_ON / LIGHTS_OFF
TriggerStep == ReadLine /\ normalize_line(raw') \in Triggers

\* a step of the read loop that read a non-empty line that is no trigger
OtherStep == ReadLine /\ normalize_line(raw') \notin (Triggers \cup {<<>>})

\* the step made no call of govee_turn_all and left the action time alone
NoDispatch ==
    /\ pc' = "read"
    /\ UNCHANGED <<last_action_ms, lights_on_state, value, idx, sent, results>>

C2_InterruptExitsCleanly ==
    [][ Interrupt => (pc' = "exited" /\ exitCode' = 0 /\ ~raisedOut') ]_vars

\* C3 as stated, for the lines read once a dispatch has been made: a
\* non-empty line that is no trigger is never subject to the cooldown: it
\* never changes lastActionTimestamp, it is logged as [UART] passthrough text
\* and never as a cooldown skip.
C3_OtherNeverSkipped ==
    [][ (lights_on_state # "None" /\ OtherStep) =>
          (NoDispatch /\ logTag' = "UART") ]_vars

\* C4: every transport error (a failed open, a failed read) leaves the
\* process running in a back-off of BACKOFF_S units; the back-off can only
\* count down and then go back to another open attempt (or be interrupted);
\* an open attempt is possible whatever the number of earlier attempts; and
\* the process only ever exits at start-up or by a KeyboardInterrupt.
C4_RetryForever ==
    /\ [][ ((OpenPort /\ ser' # "open") \/ ReadFail) =>
             (pc' = "backoff" /\ sleepLeft' = BACKOFF_S
                /\ exitCode' = -1 /\ ~raisedOut') ]_vars
    /\ [][ pc = "backoff" =>
             \/ pc' = "backoff" /\ sleepLeft > 0 /\ sleepLeft' = sleepLeft - 1
             \/ pc' = "open" /\ sleepLeft = 0
             \/ Interrupt ]_vars
    /\ [](pc = "open" => ENABLED OpenPort)
    /\ [][ (pc # "exited" /\ pc' = "exited") =>
             (Interrupt \/ pc \in {"keycheck", "discover"}) ]_vars

\* witness of C4: two open attempts have failed, the port was never opened,
\* and the loop is about to try again
C4_Witness ==
    /\ pc = "open"
    /\ openAttempts >= 2
    /\ ser = "none"
    /\ sleepLeft = 0
    /\ exitCode = -1

\* all the control requests so far of the running fan-out succeeded
AllOk(rs) == \A k \in 1..Len(rs) : rs[k] = "200"

\* the request govee_turn_all owes to device k of the registry
RequestFor(k, v) ==
    [device |-> GOVEE_DEVICES[k][1], model |-> GOVEE_DEVICES[k][2], value |-> v]

\* C5: while govee_turn_all runs, the requests made so far are exactly one
\* per device of the registry prefix already visited, in registry order, each
\* with one result; ok_all is true iff every result so far is a success;
\* whatever the earlier results, the next device is sent to and may succeed or
\* fail in either way (no short-circuit); after the last device the call
\* returns (it never raises on a failure), with N results, and returns True
\* iff all N devices succeeded.
C5_FanOutAllDevices ==
    /\ [](pc = "dispatch" =>
            /\ idx \in 1..(Len(GOVEE_DEVICES) + 1)
            /\ Len(sent) = idx - 1
            /\ Len(results) = idx - 1
            /\ \A k \in 1..Len(sent) : sent[k] = RequestFor(k, value)
            /\ ok_all = AllOk(results)
            /\ idx <= Len(GOVEE_DEVICES) =>
                 \A o \in Outcomes :
                    ENABLED (SendOne /\ results' = Append(results, o)
                                     /\ sent' = Append(sent, RequestFor(idx, value)))
            /\ idx > Len(GOVEE_DEVICES) => ENABLED TurnAllReturn)
    /\ [][ (pc = "dispatch" /\ pc' = "read") =>
             /\ Len(results) = Len(GOVEE_DEVICES)
             /\ Len(sent) = Len(GOVEE_DEVICES)
             /\ (returned' = "True") = AllOk(results)
             /\ returned' \in {"True", "False"} ]_vars
    /\ [][ (pc = "dispatch" /\ pc' = "exited") => Interrupt ]_vars

\* witness of C5: three devices, the second failed, the third was still sent
\* to and succeeded, and the call is about to return False
C5_Witness ==
    /\ pc = "dispatch"
    /\ Len(GOVEE_DEVICES) = 3
    /\ idx = 4
    /\ results = <<"200", "exception", "200">>
    /\ ok_all = FALSE

\* C6: an ON/OFF trigger that passes the cooldown gate calls govee_turn_all
\* with the matching command; when the call returns, whatever it returns,
\* last_action_ms becomes that trigger's now_ms and lights_on_state the
\* commanded state; so after a failed dispatch the next trigger that falls
\* inside a positive cooldown window makes no call.
C6_TimestampWhateverOutcome ==
    /\ [][ (TriggerStep /\ ~InCooldown(now_ms', last_action_ms)) =>
             (pc' = "dispatch" /\ value' = CommandOf(msg') /\ idx' = 1
                /\ sent' = <<>> /\ UNCHANGED last_action_ms) ]_vars
    /\ [][ (pc = "dispatch" /\ pc' = "read") =>
             /\ last_action_ms' = now_ms
             /\ lights_on_state' = (IF msg = TRIGGER_ON THEN "True" ELSE "False")
             /\ value = CommandOf(msg) ]_vars
    /\ [][ (TriggerStep /\ returned = "False" /\ COOLDOWN_MS > 0
              /\ now_ms' - last_action_ms < COOLDOWN_MS) => NoDispatch ]_vars

\* witness of C6: a dispatch in which a device failed has returned, and the
\* action time is that trigger's time
C6_Witness ==
    /\ pc = "read"
    /\ returned = "False"
    /\ msg \in Triggers
    /\ last_action_ms = now_ms
    /\ now_ms > 0
    /\ COOLDOWN_MS > 0

\* the text holds nothing but white space (it is empty after trimming)
Blank(s) == \A i \in 1..Len(s) : s[i] \in Whitespace

\* the static configuration yields at least one device
StaticYieldsDevices == parse_devices(GOVEE_DEVICES_RAW) # <<>>

\* the allow-list filter of lines 115-122 has run
FilterDone ==
    \/ pc \in {"main", "open", "read", "dispatch", "backoff"}
    \/ pc = "exited" /\ exitCode # 1

\* C7: the listing endpoint is not called before the static configuration is
\* parsed, never when the static configuration yields a device (whatever the
\* allow-list then removes), exactly once when it yields none; when both
\* yield nothing the process has exited with code 1 and no serial port was
\* ever opened.
C7_ResolutionOrder ==
    /\ pc \in {"keycheck", "parse"} => fetchCalls = 0
    /\ fetchCalls \in {0, 1}
    /\ (pc \notin {"keycheck", "parse"} /\ ~Blank(apiKeyRaw)) =>
         IF StaticYieldsDevices
         THEN fetchCalls = 0
         ELSE fetchCalls = 1 \/ (fetchCalls = 0 /\ pc = "discover")
    /\ (fetchCalls = 1 /\ GOVEE_DEVICES = <<>> /\ resolved = <<>>) =>
         /\ pc = "exited"
         /\ exitCode = 1
         /\ openAttempts = 0
         /\ ser = "none"

\* witness of C7: the static configuration yielded a device, the allow-list
\* removed it, the endpoint was never called and the loop is reading
C7_Witness ==
    /\ pc = "read"
    /\ StaticYieldsDevices
    /\ resolved # <<>>
    /\ GOVEE_DEVICES = <<>>
    /\ fetchCalls = 0

\* a and b are equal when letter case is ignored
SameIgnoringCase(a, b) == Upper(a) = Upper(b)

\* sub is the sequence of the elements of full that satisfy Keep, in the
\* order they have in full
IsSelectionInOrder(sub, full, Keep(_)) ==
    \E f \in [1..Len(sub) -> 1..Len(full)] :
       /\ \A i, j \in 1..Len(sub) : i < j => f[i] < f[j]
       /\ \A i \in 1..Len(sub) : sub[i] = full[f[i]]
       /\ \A k \in 1..Len(full) : Keep(full[k]) <=> (\E i \in 1..Len(sub) : f[i] = k)

\* C8: once the filter has run, with a non-empty (trimmed) allow-list the
\* registry holds exactly the devices of the resolved list whose model equals
\* the allow-list value when case is ignored, in their original relative
\* order; with an empty allow-list the registry is the resolved list.
C8_AllowListInvariant ==
    FilterDone =>
        LET allowed == Strip(allowedRaw)
        IN  IF allowed # <<>>
            THEN /\ \A k \in 1..Len(GOVEE_DEVICES) :
                       SameIgnoringCase(GOVEE_DEVICES[k][2], allowed)
                 /\ IsSelectionInOrder(GOVEE_DEVICES, resolved,
                                       LAMBDA dm : SameIgnoringCase(dm[2], allowed))
            ELSE GOVEE_DEVICES = resolved

\* witness of C8: of three resolved devices H6, K3, h6 the filter kept the
\* first and the third
C8_Witness ==
    /\ pc = "main"
    /\ Len(resolved) = 3
    /\ Len(GOVEE_DEVICES) = 2
    /\ GOVEE_DEVICES[1] = resolved[1]
    /\ GOVEE_DEVICES[2] = resolved[3]
    /\ GOVEE_DEVICES[2][2] = <<"h", "6">>

\* C9: the filter step never exits, even when it leaves the registry empty;
\* with an empty registry the loop runs, a call of govee_turn_all makes no
\* request, returns True and hands control back to the read loop.
C9_EmptyRegistryNonFatal ==
    /\ [][ pc = "filter" => (pc' = "main" /\ exitCode' = -1) ]_vars
    /\ []((FilterDone /\ GOVEE_DEVICES = <<>>) => sent = <<>>)
    /\ []((pc = "dispatch" /\ GOVEE_DEVICES = <<>>) => ENABLED TurnAllReturn)
    /\ [][ (pc = "dispatch" /\ GOVEE_DEVICES = <<>>) =>
             \/ Interrupt
             \/ pc' = "read" /\ returned' = "True" /\ sent = <<>> ]_vars

\* witness of C9: the filter emptied a non-empty resolved list, a LIGHTS_ON
\* was dispatched to no device, reported success, and the loop reads on
C9_Witness ==
    /\ pc = "read"
    /\ resolved # <<>>
    /\ GOVEE_DEVICES = <<>>
    /\ lights_on_state = "True"
    /\ returned = "True"
    /\ ser = "open"

\* C10: with an API key that is empty after trimming, the process is, after
\* the check of line 22, exited with code 1, having parsed no device, called
\* no endpoint and attempted no serial open.
C10_MissingKeyFatal ==
    (Blank(apiKeyRaw) /\ pc # "keycheck") =>
        /\ pc = "exited"
        /\ exitCode = 1
        /\ GOVEE_DEVICES = <<>>
        /\ fetchCalls = 0
        /\ sent = <<>>
        /\ openAttempts = 0
        /\ ser = "none"

\* witness of C10: a key of white space only, and the process has exited
C10_Witness ==
    /\ apiKeyRaw = <<" ">>
    /\ pc = "exited"
    /\ exitCode = 1

TextIn(b) ==
    DecodeCases[CHOOSE i \in 1..Len(DecodeCases) : DecodeCases[i].bytes = b].text

\* C12: what the loop does with a line depends on its trimmed text alone.
\* Empty text is no event.  Otherwise msg is the trimmed text; when the
\* cooldown gate is open, the text LIGHTS_ON calls govee_turn_all("on"),
\* LIGHTS_OFF calls govee_turn_all("off"), and any other text (a case variant,
\* a trigger with extra characters) is logged as [UART]; a text that is no
\* trigger never leads to a call, whatever the lines before it were and
\* whatever lights_on_state is.
C12_TriggerDecoding ==
    [][ DecodeRead =>
          LET text == TextIn(raw')
          IN  IF text = <<>>
              THEN UNCHANGED <<pc, now_ms, logTag, last_action_ms, lights_on_state,
                               value, idx, sent>>
              ELSE /\ msg' = text
                   /\ pc' = "dispatch" =>
                          (text \in Triggers /\ value' = CommandOf(text))
                   /\ text \notin Triggers => NoDispatch
                   /\ ~InCooldown(now_ms', last_action_ms) =>
                          IF text \in Triggers
                          THEN pc' = "dispatch" /\ value' = CommandOf(text)
                          ELSE pc' = "read" /\ logTag' = "UART" ]_vars

\* witness of C12: with the lights commanded on, the line "lights_on" was
\* taken as passthrough text
C12_Witness ==
    /\ pc = "read"
    /\ lights_on_state = "True"
    /\ raw = <<"l", "i", "g", "h", "t", "s", "_", "o", "n", "\n">>
    /\ msg = <<"l", "i", "g", "h", "t", "s", "_", "o", "n">>
    /\ logTag = "UART"

\* the places of main() inside the with-block of line 170
Connected == pc \in {"read", "dispatch"}

\* C13: the handle is open exactly while the loop is inside the with-block:
\* it is closed in the back-off and at termination, none is open when
\* serial.Serial is called, a handle becomes open only by a new call of
\* serial.Serial, and a read error closes the handle it happened on.
C13_HandleOwnership ==
    /\ [](ser = "open" <=> Connected)
    /\ [][ /\ (ser' = "open" /\ ser # "open") =>
                (pc = "open" /\ openAttempts' = CountAttempt(openAttempts))
           /\ (pc = "read" /\ pc' = "backoff") => (ser = "open" /\ ser' = "closed")
           /\ (Connected /\ pc' = "exited") => (ser = "open" /\ ser' = "closed") ]_vars

\* witness of C13: a second handle is open after a dispatch made on a first
\* one, which a read error closed
C13_Witness ==
    /\ pc = "read"
    /\ ser = "open"
    /\ logTag = "INFO"
    /\ openAttempts = 2
    /\ GOVEE_DEVICES # <<>>
    /\ lights_on_state # "None"

\* the places of main() an interrupt can arrive at
InLoop == pc \in {"open", "read", "dispatch", "backoff"}

\* C14: the step an interrupt makes sends nothing, leaves last_action_ms and
\* lights_on_state as they were, leaves no handle open and ends the process,
\* also in the middle of a fan-out with devices still to visit; and no step
\* is ever taken by the ended process.
C14_InterruptStopsRequests ==
    [][ /\ pc # "exited"
        /\ (InLoop /\ pc' = "exited") =>
              /\ sent' = sent
              /\ results' = results
              /\ idx' = idx
              /\ last_action_ms' = last_action_ms
              /\ lights_on_state' = lights_on_state
              /\ ser' # "open" ]_vars

\* witness of C14: the process ended on an interrupt after the first of three
\* devices was sent to
C14_Witness ==
    /\ pc = "exited"
    /\ exitCode = 0
    /\ Len(GOVEE_DEVICES) = 3
    /\ value = "on"
    /\ Len(sent) = 1
    /\ idx = 2
    /\ ser = "closed"
    /\ last_action_ms = 0

\* the bytes hold no text: nothing was read, or nothing but white space and
\* bytes that are not valid utf-8
NoText(b) == \A i \in 1..Len(b) : b[i] \in Whitespace \cup {BadByte}

\* C15: a read that returns nothing, or a line without text, changes nothing
\* of the bridge: the loop stays at the read on the same open handle, the
\* time and the state of the last action, the clock reading of the last
\* handled line, the last log tag and the dispatch frame are as before.
C15_EmptyReadAdvancesNothing ==
    [][ (pc = "read" /\ NoText(raw') /\ ReadLine) =>
           /\ pc' = "read"
           /\ ser' = "open"
           /\ UNCHANGED <<ser, openAttempts, sleepLeft, exitCode, last_action_ms,
                          lights_on_state, now_ms, logTag, value, idx, ok_all, sent,
                          results, returned, GOVEE_DEVICES>> ]_vars

\* witness of C15: a line of white space was read after a dispatch, and the
\* tag of the dispatch is still the last one logged
C15_Witness ==
    /\ pc = "read"
    /\ raw = <<" ", "\r", "\n">>
    /\ msg = <<>>
    /\ logTag = "OK"
    /\ lights_on_state = "True"
    /\ last_action_ms > 0

\* main() has been entered: the module-level code that builds the registry
\* is over
LoopStarted == pc = "main" \/ InLoop

\* C16: once main() is entered no step changes GOVEE_DEVICES (content or
\* order) or the allow-list it was filtered by, none calls the discovery
\* again, and the requests of every fan-out are, in order, those of the
\* devices of that one registry.
C16_RegistryReadOnly ==
    [][ LoopStarted =>
          /\ GOVEE_DEVICES' = GOVEE_DEVICES
          /\ ALLOWED_MODEL' = ALLOWED_MODEL
          /\ fetchCalls' = fetchCalls
          /\ apiData' = apiData
          /\ \A k \in 1..Len(sent') :
                /\ k <= Len(GOVEE_DEVICES)
                /\ sent'[k].device = GOVEE_DEVICES[k][1]
                /\ sent'[k].model = GOVEE_DEVICES[k][2] ]_vars

\* witness of C16: a discovered registry of several devices, after a dispatch
\* with a failed request, a transport error and a reconnect
C16_Witness ==
    /\ pc = "read"
    /\ openAttempts = 2
    /\ logTag = "INFO"
    /\ returned = "False"
    /\ fetchCalls = 1
    /\ Len(GOVEE_DEVICES) >= 2

\* the value of the first key of keys that the object d has with a non-empty
\* string, or the empty string when it has none
FirstPresent(d, keys) ==
    LET present == { i \in 1..Len(keys) :
                       /\ keys[i] \in DOMAIN d.v
                       /\ d.v[keys[i]].t = "str"
                       /\ d.v[keys[i]].v # <<>> }
    IN  IF present = {} THEN <<>>
        ELSE d.v[keys[CHOOSE i \in present : \A j \in present : i <= j]].v

\* the element is an object that supplies an identifier and a model
Usable(d) ==
    /\ d.t = "dict"
    /\ FirstPresent(d, IdKeys) # <<>>
    /\ FirstPresent(d, ModelKeys) # <<>>

\* C17: once fetch_devices_from_api has run on an answer, its result holds
\* one pair for every usable element of the answer and nothing else, in the
\* order of the answer: the pair of the first present non-empty identifier
\* key and the first present non-empty model key of that element.  Elements
\* that are no objects or miss either value are passed over, and those after
\* them are still visited.
C17_RecordExtraction ==
    (pc \in {"filter", "exited"} /\ apiData # <<>> /\ ~apiData[1].err) =>
        LET ds   == IterOf(DevicesRawOf(apiData[1].data))
            kept == { i \in 1..Len(ds) : Usable(ds[i]) }
            out  == fetch_devices_from_api(apiData[1])
        IN  /\ Len(out) = Cardinality(kept)
            /\ \A i \in kept :
                  out[Cardinality({ j \in kept : j <= i })] =
                     <<FirstPresent(ds[i], IdKeys), FirstPresent(ds[i], ModelKeys)>>
            /\ GOVEE_DEVICES = out
            /\ pc = "exited" <=> kept = {}

\* witness of C17: of two records the first, without a model, was passed
\* over, and the second gave its id and productModel values
C17_Witness ==
    /\ pc = "filter"
    /\ apiData # <<>>
    /\ Len(IterOf(DevicesRawOf(apiData[1].data))) = 2
    /\ ~Usable(IterOf(DevicesRawOf(apiData[1].data))[1])
    /\ GOVEE_DEVICES = << << <<"c">>, <<"p">> >> >>

\* the loop is about to read the first line with text of the process's life:
\* the first handle is open and nothing has been logged since [INFO]
\* Listening..., so no line with text was handled and no action was made
BeforeFirstText ==
    /\ pc = "read"
    /\ openAttempts = 1
    /\ logTag = "INFO"
    /\ lights_on_state = "None"
    /\ last_action_ms = 0

\* C18: when the first line with text the process reads is LIGHTS_ON or
\* LIGHTS_OFF, govee_turn_all is called for it, whatever COOLDOWN_MS and the
\* clock reading are.
C18_FirstTriggerDispatched ==
    [][ (BeforeFirstText /\ raw' # <<>> /\ TriggerStep) => pc' = "dispatch" ]_vars

\* a new handle was opened after an action, and no line with text has been
\* handled on it yet
ReopenedAfterAction ==
    /\ pc = "read"
    /\ GOVEE_DEVICES # <<>>
    /\ ser = "open"
    /\ logTag = "INFO"
    /\ lights_on_state # "None"

\* a step of the path from a transport error to the next open handle: the
\* failing read, the back-off sleep, the call of serial.Serial
ReconnectStep ==
    \/ pc = "read" /\ pc' = "backoff"
    \/ pc = "backoff" /\ pc' \in {"backoff", "open"}
    \/ pc = "open" /\ pc' \in {"read", "backoff"}

\* C19: no step of the reconnect path changes last_action_ms,
\* lights_on_state or COOLDOWN_MS; and on a handle opened after an action,
\* an ON/OFF trigger read less than COOLDOWN_MS after that action is skipped:
\* nothing is sent and last_action_ms stays.
C19_CooldownSurvivesReconnect ==
    [][ /\ ReconnectStep => UNCHANGED <<last_action_ms, lights_on_state, COOLDOWN_MS>>
        /\ ( /\ ReopenedAfterAction
             /\ COOLDOWN_MS > 0
             /\ raw' # <<>>
             /\ now_ms' >= last_action_ms
             /\ now_ms' - last_action_ms < COOLDOWN_MS
             /\ TriggerStep )
           => (logTag' = "SKIP" /\ NoDispatch) ]_vars

\* witness of C19: after an action at a time above 0, a read error, the
\* back-off and a second serial.Serial call, the loop listens on the new
\* handle with the action time kept, and a trigger read now can be skipped
C19_Witness ==
    /\ ReopenedAfterAction
    /\ openAttempts = 2
    /\ GOVEE_DEVICES # <<>>
    /\ COOLDOWN_MS > 0
    /\ last_action_ms > 0
    /\ now_ms = last_action_ms
    /\ ENABLED (TriggerStep /\ logTag' = "SKIP")

\* C20: with COOLDOWN_MS > 0 a step either leaves last_action_ms as it is or
\* is the return of govee_turn_all for a dispatched trigger, which moves it
\* up by at least COOLDOWN_MS; so it never decreases, wherever the clock
\* readings go.
C20_ActionTimeMonotone ==
    [][ COOLDOWN_MS > 0 =>
          \/ last_action_ms' = last_action_ms
          \/ /\ pc = "dispatch"
             /\ pc' = "read"
             /\ msg \in Triggers
             /\ last_action_ms' = now_ms
             /\ last_action_ms' >= last_action_ms + COOLDOWN_MS ]_vars

\* witness of C20: after an action, a trigger came with a clock reading
\* below the time of that action; it was skipped and the action time stayed
C20_Witness ==
    /\ pc = "read"
    /\ COOLDOWN_MS > 0
    /\ lights_on_state # "None"
    /\ msg \in Triggers
    /\ logTag = "SKIP"
    /\ last_action_ms > 0
    /\ now_ms < last_action_ms

====
